---- MODULE Spec2Model ----
(***************************************************************************)
(* Model of backend.py: the one-time, lock-guarded generation of the       *)
(* in-memory user dataset (generate_users_once, maybe_generate), the       *)
(* request handlers get_users and health, and the query functions          *)
(* apply_search_filter, apply_sort and the page slice.                     *)
(*                                                                         *)
(* Conventions.                                                            *)
(*  - A Python str is a sequence of code points (<<83,97,109>> is "Sam").   *)
(*  - A Python value that may be None is a sequence of length 0 or 1:      *)
(*    <<>> is None and <<v>> is the value v.                                *)
(*  - A score is kept in hundredths (3000 is 30.0): random_score rounds    *)
(*    to two decimals.                                                     *)
(***************************************************************************)
EXTENDS Integers, Sequences, FiniteSets, TLC

VARIABLES
    _USERS,        \* the global _USERS: None or the published list
    _GENERATED,    \* the global _GENERATED
    _USERS_LOCK,   \* the holder of _USERS_LOCK: None or a thread
    gotFirst,      \* Flask has run the before_first_request functions
    pc,            \* pc[t]: where thread t stands in its code
    users,         \* users[t]: the local list of generate_users_once
    base,          \* base[t]: the outer loop variable of generate_users_once
    args,          \* args[t]: None or the request.args of t's list request
    req,           \* req[t]: None or the parsed parameters of t's list request
    early,         \* early[t]: t's request began while _GENERATED was False
    data,          \* data[t]: the local reference data of get_users
    resp,          \* resp[t]: None or the last response t returned
    lastHealth,    \* None or the status of the most recent health response
    passes,        \* instrumentation: executions of the slot-filling loop begun
    skips,         \* instrumentation: returns taken at "if _GENERATED: return"
    publishes      \* instrumentation: assignments to _USERS

vars == <<_USERS, _GENERATED, _USERS_LOCK, gotFirst, pc, users, base, args, req,
          early, data, resp, lastHealth, passes, skips, publishes>>

-----------------------------------------------------------------------------
(* Bounds *)

TOTAL_USERS == 3

chunk == 2

(* the generation runs in which record construction may fail *)
MaxFailures == 2

Requests == {"r1", "r2"}

Threads == {"bg"} \cup Requests

-----------------------------------------------------------------------------
(* Python values *)

None == <<>>

Some(v) == <<v>>

IsNone(o) == o = <<>>

Val(o) == o[1]

Min(a, b) == IF a < b THEN a ELSE b

Max(a, b) == IF a > b THEN a ELSE b

Reverse(s) == [k \in 1..Len(s) |-> s[Len(s) + 1 - k]]

RECURSIVE Concat(_)
Concat(ss) == IF ss = <<>> THEN <<>> ELSE Head(ss) \o Concat(Tail(ss))

(* str.lower on the ASCII range *)
LowerChar(c) == IF c >= 65 /\ c <= 90 THEN c + 32 ELSE c

Lower(s) == [k \in 1..Len(s) |-> LowerChar(s[k])]

IsSpace(c) == c \in {9, 10, 11, 12, 13, 32}

IsDigit(c) == c >= 48 /\ c <= 57

IsAlnum(c) == IsDigit(c) \/ (c >= 65 /\ c <= 90) \/ (c >= 97 /\ c <= 122)

RECURSIVE LStrip(_)
LStrip(s) == IF s # <<>> /\ IsSpace(Head(s)) THEN LStrip(Tail(s)) ELSE s

(* str.strip *)
Strip(s) == Reverse(LStrip(Reverse(LStrip(s))))

(* the Python test  s in t  on strings *)
Contains(t, s) ==
    \E k \in 0..(Len(t) - Len(s)) : \A j \in 1..Len(s) : t[k + j] = s[j]

(* the Python comparison  a < b  on strings, and on numbers held as <<n>> *)
RECURSIVE SeqLess(_, _)
SeqLess(a, b) ==
    IF b = <<>> THEN FALSE
    ELSE IF a = <<>> THEN TRUE
    ELSE IF Head(a) # Head(b) THEN Head(a) < Head(b)
    ELSE SeqLess(Tail(a), Tail(b))

(* str(n) for n >= 0 *)
RECURSIVE Str(_)
Str(n) == IF n < 10 THEN <<48 + n>> ELSE Str(n \div 10) \o <<48 + (n % 10)>>

RECURSIVE DigitsValue(_)
DigitsValue(s) ==
    IF s = <<>> THEN 0 ELSE 10 * DigitsValue(SubSeq(s, 1, Len(s) - 1)) + (s[Len(s)] - 48)

(* int(text): None when Python raises ValueError *)
PyInt(text) ==
    LET s == Strip(text)
        signed == s # <<>> /\ Head(s) \in {43, 45}
        digits == IF signed THEN Tail(s) ELSE s
    IN  IF digits = <<>> \/ \E k \in 1..Len(digits) : ~IsDigit(digits[k])
        THEN None
        ELSE Some(IF signed /\ Head(s) = 45 THEN 0 - DigitsValue(digits) ELSE DigitsValue(digits))

-----------------------------------------------------------------------------
(* Record factory *)

(* random.choice(["example.com", "mail.com", "demo.net", "sample.org"]) *)
Domains == <<
    <<101,120,97,109,112,108,101,46,99,111,109>>,
    <<109,97,105,108,46,99,111,109>>,
    <<100,101,109,111,46,110,101,116>>,
    <<115,97,109,112,108,101,46,111,114,103>> >>

(* What the random source and Faker hand to one call of generate_user: the
   name, the phone, the index of the e-mail domain, the score, the timestamp
   text and the addedBy label.
     "Sam Smith", "+15550100001", example.com, 30.0,
         "2026-03-01T10:20:30.000123Z", "admin"
     "al Patel", "+14045550003", mail.com, 10.0,
         "2026-03-01T10:20:30Z" (isoformat drops a zero microsecond), "Zed Roy" *)
Draws == {
    [name |-> <<83,97,109,32,83,109,105,116,104>>,
     phone |-> <<43,49,53,53,53,48,49,48,48,48,48,49>>,
     domain |-> 1, score |-> 3000,
     lastMessageAt |-> <<50,48,50,54,45,48,51,45,48,49,84,49,48,58,50,48,58,51,48,46,48,48,48,49,50,51,90>>,
     addedBy |-> <<97,100,109,105,110>>],
    [name |-> <<97,108,32,80,97,116,101,108>>,
     phone |-> <<43,49,52,48,52,53,53,53,48,48,48,51>>,
     domain |-> 2, score |-> 1000,
     lastMessageAt |-> <<50,48,50,54,45,48,51,45,48,49,84,49,48,58,50,48,58,51,48,90>>,
     addedBy |-> <<90,101,100,32,82,111,121>>] }

RECURSIVE AlnumOnly(_)
AlnumOnly(s) ==
    IF s = <<>> THEN <<>>
    ELSE IF IsAlnum(Head(s)) THEN <<Head(s)>> \o AlnumOnly(Tail(s))
    ELSE AlnumOnly(Tail(s))

(* f"{safe}.{uid}@{domain}" *)
random_email(name, uid, domain) ==
    LET kept == AlnumOnly(Lower(name))
        cut == SubSeq(kept, 1, Min(12, Len(kept)))
        safe == IF cut = <<>> THEN <<117,115,101,114>> ELSE cut
    IN  safe \o <<46>> \o Str(uid) \o <<64>> \o Domains[domain]

(* f"https://i.pravatar.cc/150?img={idx}" *)
random_avatar(uid) ==
    <<104,116,116,112,115,58,47,47,105,46,112,114,97,118,97,116,97,114,46,99,99,47,49,53,48,63,105,109,103,61>>
        \o Str((uid % 70) + 1)

generate_user(uid, draw) ==
    [id |-> uid,
     name |-> draw.name,
     phone |-> draw.phone,
     email |-> random_email(draw.name, uid, draw.domain),
     score |-> draw.score,
     lastMessageAt |-> draw.lastMessageAt,
     addedBy |-> draw.addedBy,
     avatar |-> random_avatar(uid)]

-----------------------------------------------------------------------------
(* Query engine *)

(* the truth value Python gives an optional str: None and "" are false *)
Truthy(o) == ~IsNone(o) /\ Val(o) # <<>>

match(u, s) ==
    \/ Contains(Lower(Val(u).name), s)
    \/ Contains(Lower(Val(u).email), s)
    \/ Contains(Lower(Val(u).phone), s)

(* a needle that keeps its case *)
SearchNeedleCaseSensitive(search) == Strip(Val(search))

(* s = search.strip().lower() *)
SearchNeedle(search) == Lower(Strip(Val(search)))

apply_search_filter(list, search) ==
    IF ~Truthy(search) THEN list
    ELSE SelectSeq(list, LAMBDA u : match(u, SearchNeedle(search)))

(* a key function that compares the text fields as they are *)
keyfnCaseSensitive(u, sort_by) ==
    IF sort_by \in {"id", "score"} THEN <<Val(u)[sort_by]>>
    ELSE IF sort_by \in DOMAIN Val(u) THEN Val(u)[sort_by]
    ELSE <<>>

(* keyfn of apply_sort; a number n is the key <<n>> *)
keyfn(u, sort_by) ==
    IF sort_by = "id" THEN <<Val(u).id>>
    ELSE IF sort_by = "score" THEN <<Val(u).score>>
    ELSE IF sort_by = "lastMessageAt" THEN Val(u).lastMessageAt
    ELSE IF sort_by \in {"name", "email", "phone", "addedBy"} THEN Lower(Val(u)[sort_by])
    ELSE IF sort_by \in DOMAIN Val(u) THEN Val(u)[sort_by]
    ELSE <<>>

(* one step of the stable sort: x goes behind every element whose key is not
   greater than its own *)
RECURSIVE InsertByKey(_, _, _)
InsertByKey(sorted, x, sort_by) ==
    IF sorted = <<>> THEN <<x>>
    ELSE IF SeqLess(keyfn(x, sort_by), keyfn(sorted[Len(sorted)], sort_by))
         THEN InsertByKey(SubSeq(sorted, 1, Len(sorted) - 1), x, sort_by)
                  \o <<sorted[Len(sorted)]>>
         ELSE sorted \o <<x>>

(* list.sort(key=keyfn): stable, ascending *)
RECURSIVE StableSort(_, _)
StableSort(list, sort_by) ==
    IF list = <<>> THEN <<>>
    ELSE InsertByKey(StableSort(SubSeq(list, 1, Len(list) - 1), sort_by),
                     list[Len(list)], sort_by)

DESC == <<100,101,115,99>>

ASC == <<97,115,99>>

(* a descending sort done as sorted-then-reversed, which turns ties around *)
apply_sortThenReverse(list, sort_by, sort_order) ==
    IF ~(~IsNone(sort_by) /\ Val(sort_by) # "") THEN list
    ELSE IF sort_order = DESC
         THEN Reverse(StableSort(list, Val(sort_by)))
         ELSE StableSort(list, Val(sort_by))

(* list.sort(key=keyfn, reverse=True) reverses, sorts and reverses again *)
apply_sort(list, sort_by, sort_order) ==
    IF ~(~IsNone(sort_by) /\ Val(sort_by) # "") THEN list
    ELSE IF sort_order = DESC
         THEN Reverse(StableSort(Reverse(list), Val(sort_by)))
         ELSE StableSort(list, Val(sort_by))

(* the Python slice list[start:stop] *)
PySlice(list, start, stop) ==
    LET n == Len(list)
        lo == IF start < 0 THEN Max(start + n, 0) ELSE Min(start, n)
        hi == IF stop < 0 THEN Max(stop + n, 0) ELSE Min(stop, n)
    IN  SubSeq(list, lo + 1, hi)

(* int(request.args.get(name, default)) inside try/except *)
IntArg(raw, default) ==
    IF IsNone(raw) THEN default
    ELSE IF IsNone(PyInt(Val(raw))) THEN default
    ELSE Val(PyInt(Val(raw)))

(* a reset that forgets the upper end of the range *)
NormalizeLimitNoCeiling(limit) == IF limit <= 0 THEN 30 ELSE limit

NormalizeLimit(limit) == IF limit <= 0 \/ limit > 1000 THEN 30 ELSE limit

NormalizeOrder(raw) ==
    LET lowered == IF IsNone(raw) THEN ASC ELSE Lower(Val(raw))
    IN  IF lowered \notin {ASC, DESC} THEN ASC ELSE lowered

(* the query parameters of get_users *)
ParseArgs(a) ==
    [page |-> IntArg(a.page, 1),
     limit |-> NormalizeLimit(IntArg(a.limit, 30)),
     search |-> a.search,
     sort_by |-> a.sort_by,
     sort_order |-> NormalizeOrder(a.sort_order)]

(* a filter for which an empty search text is a search that matches nothing *)
FilteredEmptyMatchesNothing(list, q) ==
    IF IsNone(q.search) THEN list
    ELSE IF Val(q.search) = <<>> THEN <<>>
    ELSE apply_search_filter(list, q.search)

Filtered(list, q) ==
    IF Truthy(q.search) THEN apply_search_filter(list, q.search) ELSE list

(* a total that is the target size whatever the filter *)
TotalAlwaysTarget(list, q, total_users) == total_users

TotalFiltered(list, q, total_users) ==
    IF Truthy(q.search) THEN Len(Filtered(list, q)) ELSE total_users

Working(list, q) ==
    IF ~IsNone(q.sort_by) /\ Val(q.sort_by) # ""
    THEN apply_sort(Filtered(list, q), q.sort_by, q.sort_order)
    ELSE Filtered(list, q)

(* a slice that counts pages from 0 *)
PageItemsZeroBased(working, page, limit) ==
    PySlice(working, page * limit, page * limit + limit)

PageItems(working, page, limit) ==
    PySlice(working, (page - 1) * limit, (page - 1) * limit + limit)

(* the body of get_users from the local reference on *)
Respond(ref, q, total_users) ==
    IF IsNone(ref)
    THEN [page |-> q.page, limit |-> q.limit, total |-> total_users, items |-> <<>>]
    ELSE [page |-> q.page, limit |-> q.limit,
          total |-> TotalFiltered(Val(ref), q, total_users),
          items |-> PageItems(Working(Val(ref), q), q.page, q.limit)]

(* a copy made only of a list the search has built, so that a sorted request
   without a search sorts the shared list itself *)
SortsACopyOnlyAfterSearch(q) == Truthy(q.search)

(* working = list(filtered): apply_sort is handed a copy *)
SortsACopy(q) == TRUE

(* what _USERS refers to after the request has sorted its working list in
   place: the list changes only if the working list is the shared list itself,
   that is, not a copy, not the fresh list of a search, and the list data
   refers to *)
SharedAfterRequest(shared, ref, q) ==
    IF /\ ~IsNone(ref)
       /\ ref = shared
       /\ ~IsNone(q.sort_by) /\ Val(q.sort_by) # ""
       /\ ~Truthy(q.search)
       /\ ~SortsACopy(q)
    THEN Some(apply_sort(Val(ref), q.sort_by, q.sort_order))
    ELSE shared

(* a health that reports the opposite status *)
HealthStatusInverted(generated) == IF generated THEN "generating" ELSE "ready"

(* health *)
HealthStatus(generated) == IF generated THEN "ready" ELSE "generating"

-----------------------------------------------------------------------------
(* Request parameters *)

(* the texts "1", "2", "3", "4", "0", "-1", "-2" and "abc" *)
PageTexts == {<<49>>, <<50>>, <<51>>, <<52>>, <<48>>, <<45,49>>, <<45,50>>, <<97,98,99>>}

(* the texts "1", "2", "0", "1000", "1001" and "abc" *)
LimitTexts == {<<49>>, <<50>>, <<48>>, <<49,48,48,48>>, <<49,48,48,49>>, <<97,98,99>>}

(* the texts "", "sm", "SM", "el ", " ", ".2@" and "zz" *)
SearchTexts == {<<>>, <<115,109>>, <<83,77>>, <<101,108,32>>, <<32>>, <<46,50,64>>, <<122,122>>}

SortKeys == {"", "id", "score", "lastMessageAt", "lastActivityAt", "name", "email",
             "phone", "addedBy", "avatar", "rank"}

(* the texts "asc", "desc", "DESC" and "up" *)
OrderTexts == {ASC, DESC, <<68,69,83,67>>, <<117,112>>}

Optional(S) == {None} \cup {Some(v) : v \in S}

NoArgs == [page |-> None, limit |-> None, search |-> None, sort_by |-> None,
           sort_order |-> None]

(* search=sm&sort_by=score&sort_order=desc *)
BusyArgs == [page |-> None, limit |-> None, search |-> Some(<<115,109>>),
             sort_by |-> Some("score"), sort_order |-> Some(DESC)]

(* requests that vary the paging *)
PagingArgs ==
    {[a EXCEPT !.page = p, !.limit = l] :
        a \in {NoArgs, BusyArgs}, p \in Optional(PageTexts), l \in Optional(LimitTexts)}

(* requests that vary the search over a few pages and sorts *)
SearchArgs ==
    [page : {None, Some(<<50>>)}, limit : {None, Some(<<50>>)},
     search : Optional(SearchTexts), sort_by : {None, Some("score")},
     sort_order : {None, Some(DESC)}]

(* requests that vary the sort over a few pages and searches *)
SortingArgs ==
    [page : {None, Some(<<50>>)}, limit : {None, Some(<<50>>)},
     search : {None, Some(<<115,109>>)}, sort_by : Optional(SortKeys),
     sort_order : Optional(OrderTexts)]

QueryArgs == PagingArgs \cup SearchArgs \cup SortingArgs

(* the requests of the concurrent runs *)
ConcurrentArgs ==
    {NoArgs,
     [BusyArgs EXCEPT !.page = Some(<<50>>), !.limit = Some(<<50>>)],
     [NoArgs EXCEPT !.sort_by = Some("name")]}

-----------------------------------------------------------------------------
(* Threads: the background thread of maybe_generate and the request threads *)

Init ==
    /\ _USERS = None
    /\ _GENERATED = FALSE
    /\ _USERS_LOCK = None
    /\ gotFirst = FALSE
    /\ pc = [t \in Threads |-> IF t = "bg" THEN "unstarted" ELSE "idle"]
    /\ users = [t \in Threads |-> <<>>]
    /\ base = [t \in Threads |-> 0]
    /\ args = [t \in Threads |-> None]
    /\ req = [t \in Threads |-> None]
    /\ early = [t \in Threads |-> FALSE]
    /\ data = [t \in Threads |-> None]
    /\ resp = [t \in Threads |-> None]
    /\ lastHealth = None
    /\ passes = 0
    /\ skips = 0
    /\ publishes = 0

(* before_first_request: the first request of the process runs maybe_generate,
   which starts the background thread unless _GENERATED is set *)
maybe_generate(pcs) ==
    IF ~gotFirst /\ ~_GENERATED THEN [pcs EXCEPT !["bg"] = "gen_lock"] ELSE pcs

(* where generate_users_once returns to *)
Return(t) == IF t = "bg" THEN "done" ELSE "read_data"

(* get_users up to the test of _USERS *)
BeginGetUsers(t, a) ==
    /\ pc[t] = "idle"
    /\ args' = [args EXCEPT ![t] = Some(a)]
    /\ req' = [req EXCEPT ![t] = Some(ParseArgs(a))]
    /\ early' = [early EXCEPT ![t] = ~_GENERATED]
    /\ data' = [data EXCEPT ![t] = None]
    /\ resp' = [resp EXCEPT ![t] = None]
    /\ pc' = maybe_generate([pc EXCEPT ![t] = "check_users"])
    /\ gotFirst' = TRUE
    /\ UNCHANGED <<_USERS, _GENERATED, _USERS_LOCK, users, base, lastHealth, passes, skips,
                   publishes>>

(* a get_users that calls generate_users_once whatever _USERS is *)
CheckUsersAlwaysGenerates(t) ==
    /\ pc[t] = "check_users"
    /\ pc' = [pc EXCEPT ![t] = "gen_lock"]
    /\ UNCHANGED <<_USERS, _GENERATED, _USERS_LOCK, gotFirst, users, base, args, req, early,
                   data, resp, lastHealth, passes, skips, publishes>>

(* if _USERS is None: generate_users_once() *)
CheckUsers(t) ==
    /\ pc[t] = "check_users"
    /\ pc' = [pc EXCEPT ![t] = IF IsNone(_USERS) THEN "gen_lock" ELSE "read_data"]
    /\ UNCHANGED <<_USERS, _GENERATED, _USERS_LOCK, gotFirst, users, base, args, req, early,
                   data, resp, lastHealth, passes, skips, publishes>>

(* with _USERS_LOCK: entry *)
Acquire(t) ==
    /\ pc[t] = "gen_lock"
    /\ IsNone(_USERS_LOCK)
    /\ _USERS_LOCK' = Some(t)
    /\ pc' = [pc EXCEPT ![t] = "gen_check"]
    /\ UNCHANGED <<_USERS, _GENERATED, gotFirst, users, base, args, req, early, data, resp,
                   lastHealth, passes, skips, publishes>>

(* if <generated>: return; otherwise users = [None] * TOTAL_USERS *)
CheckAndStart(t, generated) ==
    /\ pc[t] = "gen_check"
    /\ IF generated
       THEN /\ _USERS_LOCK' = None
            /\ skips' = skips + 1
            /\ pc' = [pc EXCEPT ![t] = Return(t)]
            /\ UNCHANGED <<users, base, passes>>
       ELSE /\ users' = [users EXCEPT ![t] = [k \in 1..TOTAL_USERS |-> None]]
            /\ base' = [base EXCEPT ![t] = 0]
            /\ passes' = passes + 1
            /\ pc' = [pc EXCEPT ![t] = IF TOTAL_USERS > 0 THEN "gen_fill" ELSE "gen_publish"]
            /\ UNCHANGED <<_USERS_LOCK, skips>>
    /\ UNCHANGED <<_USERS, _GENERATED, gotFirst, args, req, early, data, resp, lastHealth,
                   publishes>>

(* a generate_users_once that does not test _GENERATED *)
GenCheckUntested(t) == CheckAndStart(t, FALSE)

(* if _GENERATED: under the lock *)
GenCheck(t) == CheckAndStart(t, _GENERATED)

(* users[i] = generate_user(i + 1) for i in range(base, end) *)
ChunkFilled(list, lo, end, draw) ==
    [k \in 1..Len(list) |->
        IF k > lo /\ k <= end THEN Some(generate_user(k, draw[k])) ELSE list[k]]

(* a generation that makes the list visible while it is being filled *)
GenChunkPublishing(t) ==
    /\ pc[t] = "gen_fill"
    /\ LET end == Min(base[t] + chunk, TOTAL_USERS)
       IN  /\ \E draw \in [(base[t] + 1)..end -> Draws] :
                 /\ users' = [users EXCEPT ![t] = ChunkFilled(users[t], base[t], end, draw)]
                 /\ _USERS' = Some(ChunkFilled(users[t], base[t], end, draw))
           /\ base' = [base EXCEPT ![t] = base[t] + chunk]
           /\ pc' = [pc EXCEPT ![t] =
                        IF base[t] + chunk < TOTAL_USERS THEN "gen_fill" ELSE "gen_publish"]
    /\ UNCHANGED <<_GENERATED, _USERS_LOCK, gotFirst, args, req, early, data, resp,
                   lastHealth, passes, skips, publishes>>

(* one round of the outer loop: the slots base .. end-1 of the local list *)
GenChunk(t) ==
    /\ pc[t] = "gen_fill"
    /\ LET end == Min(base[t] + chunk, TOTAL_USERS)
       IN  /\ \E draw \in [(base[t] + 1)..end -> Draws] :
                 users' = [users EXCEPT ![t] = ChunkFilled(users[t], base[t], end, draw)]
           /\ base' = [base EXCEPT ![t] = base[t] + chunk]
           /\ pc' = [pc EXCEPT ![t] =
                        IF base[t] + chunk < TOTAL_USERS THEN "gen_fill" ELSE "gen_publish"]
    /\ UNCHANGED <<_USERS, _GENERATED, _USERS_LOCK, gotFirst, args, req, early, data, resp,
                   lastHealth, passes, skips, publishes>>

(* _USERS = users *)
(* the two assignments in the other order: the flag is raised first *)
GenPublishFlagFirst(t) ==
    /\ pc[t] = "gen_publish"
    /\ _GENERATED' = TRUE
    /\ publishes' = publishes + 1
    /\ pc' = [pc EXCEPT ![t] = "gen_flag"]
    /\ UNCHANGED <<_USERS, _USERS_LOCK, gotFirst, users, base, args, req, early, data,
                   resp, lastHealth, passes, skips>>

GenPublish(t) ==
    /\ pc[t] = "gen_publish"
    /\ _USERS' = Some(users[t])
    /\ publishes' = publishes + 1
    /\ pc' = [pc EXCEPT ![t] = "gen_flag"]
    /\ UNCHANGED <<_GENERATED, _USERS_LOCK, gotFirst, users, base, args, req, early, data,
                   resp, lastHealth, passes, skips>>

(* _GENERATED = True *)
GenFlag(t) ==
    /\ pc[t] = "gen_flag"
    /\ _GENERATED' = TRUE
    /\ pc' = [pc EXCEPT ![t] = "gen_release"]
    /\ UNCHANGED <<_USERS, _USERS_LOCK, gotFirst, users, base, args, req, early, data, resp,
                   lastHealth, passes, skips, publishes>>

(* an exit from generate_users_once that leaves _USERS_LOCK held *)
GenReleaseKeepsLock(t) ==
    /\ pc[t] = "gen_release"
    /\ users' = [users EXCEPT ![t] = <<>>]
    /\ base' = [base EXCEPT ![t] = 0]
    /\ pc' = [pc EXCEPT ![t] = Return(t)]
    /\ UNCHANGED <<_USERS, _GENERATED, _USERS_LOCK, gotFirst, args, req, early, data, resp,
                   lastHealth, passes, skips, publishes>>

(* with _USERS_LOCK: exit; generate_users_once returns *)
GenRelease(t) ==
    /\ pc[t] = "gen_release"
    /\ _USERS_LOCK' = None
    /\ users' = [users EXCEPT ![t] = <<>>]
    /\ base' = [base EXCEPT ![t] = 0]
    /\ pc' = [pc EXCEPT ![t] = Return(t)]
    /\ UNCHANGED <<_USERS, _GENERATED, gotFirst, args, req, early, data, resp, lastHealth,
                   passes, skips, publishes>>

(* data = _USERS *)
ReadData(t) ==
    /\ pc[t] = "read_data"
    /\ data' = [data EXCEPT ![t] = _USERS]
    /\ pc' = [pc EXCEPT ![t] = "respond"]
    /\ UNCHANGED <<_USERS, _GENERATED, _USERS_LOCK, gotFirst, users, base, args, req, early,
                   resp, lastHealth, passes, skips, publishes>>

(* the rest of get_users: filter, sort, slice, jsonify *)
SendResponse(t) ==
    /\ pc[t] = "respond"
    /\ resp' = [resp EXCEPT ![t] = Some(Respond(data[t], Val(req[t]), TOTAL_USERS))]
    /\ _USERS' = SharedAfterRequest(_USERS, data[t], Val(req[t]))
    /\ pc' = [pc EXCEPT ![t] = "idle"]
    /\ UNCHANGED <<_GENERATED, _USERS_LOCK, gotFirst, users, base, args, req, early,
                   data, lastHealth, passes, skips, publishes>>

(* health *)
Health(t) ==
    /\ pc[t] = "idle"
    /\ lastHealth' = Some(HealthStatus(_GENERATED))
    /\ pc' = maybe_generate(pc)
    /\ gotFirst' = TRUE
    /\ UNCHANGED <<_USERS, _GENERATED, _USERS_LOCK, users, base, args, req, early, data, resp,
                   passes, skips, publishes>>

Next ==
    \/ \E t \in Requests, a \in ConcurrentArgs : BeginGetUsers(t, a)
    \/ \E t \in Requests : CheckUsers(t)
    \/ \E t \in Threads : Acquire(t)
    \/ \E t \in Threads : GenCheck(t)
    \/ \E t \in Threads : GenChunk(t)
    \/ \E t \in Threads : GenPublish(t)
    \/ \E t \in Threads : GenFlag(t)
    \/ \E t \in Threads : GenRelease(t)
    \/ \E t \in Requests : ReadData(t)
    \/ \E t \in Requests : SendResponse(t)
    \/ \E t \in Requests : Health(t)

Spec == Init /\ [][Next]_vars

(* the steps thread t takes on its own once it has been started or has taken
   up a request *)
ThreadStep(t) ==
    \/ CheckUsers(t)
    \/ Acquire(t)
    \/ GenCheck(t)
    \/ GenChunk(t)
    \/ GenPublish(t)
    \/ GenFlag(t)
    \/ GenRelease(t)
    \/ ReadData(t)
    \/ SendResponse(t)

(* the scheduler runs every thread that can take a step *)
Fairness == \A t \in Threads : WF_vars(ThreadStep(t))

(* what Flask answers when the view function raises *)
ServerError == [error |-> "Internal Server Error"]

(* a failure that leaves the with-block without releasing _USERS_LOCK *)
GenFailKeepsLock(t) ==
    /\ pc[t] = "gen_fill"
    /\ passes <= MaxFailures
    /\ users' = [users EXCEPT ![t] = <<>>]
    /\ base' = [base EXCEPT ![t] = 0]
    /\ pc' = [pc EXCEPT ![t] = IF t = "bg" THEN "dead" ELSE "idle"]
    /\ resp' = IF t = "bg" THEN resp ELSE [resp EXCEPT ![t] = Some(ServerError)]
    /\ UNCHANGED <<_USERS, _GENERATED, _USERS_LOCK, gotFirst, args, req, early, data,
                   lastHealth, passes, skips, publishes>>

(* generate_user raises inside the loop: the exception leaves the with-block,
   which releases _USERS_LOCK, and generate_users_once; the background thread
   ends with it, a request thread answers with an error *)
GenFail(t) ==
    /\ pc[t] = "gen_fill"
    /\ passes <= MaxFailures
    /\ _USERS_LOCK' = None
    /\ users' = [users EXCEPT ![t] = <<>>]
    /\ base' = [base EXCEPT ![t] = 0]
    /\ pc' = [pc EXCEPT ![t] = IF t = "bg" THEN "dead" ELSE "idle"]
    /\ resp' = IF t = "bg" THEN resp ELSE [resp EXCEPT ![t] = Some(ServerError)]
    /\ UNCHANGED <<_USERS, _GENERATED, gotFirst, args, req, early, data, lastHealth,
                   passes, skips, publishes>>

(* the runs in which every list request comes without parameters *)
NextPlain ==
    \/ \E t \in Requests : BeginGetUsers(t, NoArgs)
    \/ \E t \in Requests : Health(t)
    \/ \E t \in Threads : ThreadStep(t)

SpecFair == Init /\ [][NextPlain]_vars /\ Fairness

(* the same runs with record construction that can fail *)
NextFailing ==
    \/ NextPlain
    \/ \E t \in Threads : GenFail(t)

SpecFailing == Init /\ [][NextFailing]_vars

-----------------------------------------------------------------------------
(* The query engine on its own: the dataset is published and one list request
   with any of the parameters of QueryArgs is served *)

Datasets ==
    {[k \in 1..TOTAL_USERS |-> Some(generate_user(k, draw[k]))] :
        draw \in [1..TOTAL_USERS -> Draws]}

(* a list request has been received (lines 158-176 have run) *)
InitQuery ==
    /\ _USERS \in {Some(d) : d \in Datasets}
    /\ _GENERATED = TRUE
    /\ _USERS_LOCK = None
    /\ gotFirst = TRUE
    /\ pc = [t \in Threads |-> IF t = "bg" THEN "done"
                               ELSE IF t = "r1" THEN "check_users" ELSE "idle"]
    /\ users = [t \in Threads |-> <<>>]
    /\ base = [t \in Threads |-> 0]
    /\ \E a \in QueryArgs :
           /\ args = [t \in Threads |-> IF t = "r1" THEN Some(a) ELSE None]
           /\ req = [t \in Threads |-> IF t = "r1" THEN Some(ParseArgs(a)) ELSE None]
    /\ early = [t \in Threads |-> FALSE]
    /\ data = [t \in Threads |-> None]
    /\ resp = [t \in Threads |-> None]
    /\ lastHealth = None
    /\ passes = 1
    /\ skips = 0
    /\ publishes = 1

NextQuery ==
    \/ CheckUsers("r1")
    \/ ReadData("r1")
    \/ SendResponse("r1")

SpecQuery == InitQuery /\ [][NextQuery]_vars

-----------------------------------------------------------------------------
(* Properties of the dataset lifecycle, checked under Spec *)

RecordFields == {"id", "name", "phone", "email", "score", "lastMessageAt", "addedBy",
                 "avatar"}

(* the threads inside the with-block of generate_users_once, past the test *)
Generating == {t \in Threads : pc[t] \in {"gen_fill", "gen_publish", "gen_flag", "gen_release"}}

(* the number of filled slots of a list reference; None has none *)
FilledSlots(ref) ==
    IF IsNone(ref) THEN 0 ELSE Cardinality({k \in 1..Len(Val(ref)) : ~IsNone(Val(ref)[k])})

(* C1: however many invocations of generate_users_once run concurrently, at
   most one is past the test of _GENERATED at a time, the slot-filling loop is
   run once and _USERS is assigned once, to a list of TOTAL_USERS slots; every
   invocation that returns without generating does so after that one run has
   published; and the run that fills does publish. *)
C1_GeneratedExactlyOnce ==
    /\ passes <= 1
    /\ publishes <= passes
    /\ Cardinality(Generating) <= 1
    /\ skips > 0 => passes = 1 /\ publishes = 1
    /\ (passes = 1 /\ \A t \in Threads : pc[t] \notin {"gen_fill", "gen_publish"})
           => publishes = 1
    /\ publishes = 1 => ~IsNone(_USERS) /\ Len(Val(_USERS)) = TOTAL_USERS
    /\ publishes = 0 => IsNone(_USERS)

(* three concurrent invocations: one generated, the two others returned at the test *)
C1_Witness == passes = 1 /\ publishes = 1 /\ skips = 2 /\ pc["bg"] = "done"

(* C2: health reports "generating" in every state in which no generation run
   has started, and once a health call has reported "ready" every later health
   call reports "ready". *)
C2_ReadinessNeverRegresses ==
    /\ [](passes = 0 =>
             /\ HealthStatus(_GENERATED) = "generating"
             /\ lastHealth \in {None, Some("generating")})
    /\ [][lastHealth = Some("ready") => lastHealth' = Some("ready")]_vars
    /\ [][_GENERATED => _GENERATED']_vars

(* a health call has reported "ready" while a request thread is free to call again *)
C2_Witness == lastHealth = Some("ready") /\ \E t \in Requests : pc[t] = "idle"

(* C3: a list request received before generation completed is answered from
   an empty or partial view: the records generated so far. *)
C3_EarlyRequestServedPartial ==
    \A t \in Requests :
        (early[t] /\ ~IsNone(resp[t])) => FilledSlots(data[t]) < TOTAL_USERS

(* a list reference holds TOTAL_USERS slots, each filled with a complete
   record, slot i (0-based) with the record whose id is i + 1 *)
WholeDataset(ref) ==
    /\ Len(Val(ref)) = TOTAL_USERS
    /\ \A k \in 1..Len(Val(ref)) :
           /\ ~IsNone(Val(ref)[k])
           /\ DOMAIN Val(Val(ref)[k]) = RecordFields
           /\ Val(Val(ref)[k]).id = k

(* C4: whenever _USERS is not None, and in every view a request holds, the
   list has TOTAL_USERS slots, every slot is filled, and slot i (0-based) holds
   a complete record whose id is i + 1. *)
C4_NoPartialView ==
    /\ ~IsNone(_USERS) => WholeDataset(_USERS)
    /\ \A t \in Requests : ~IsNone(data[t]) => WholeDataset(data[t])

(* a request read _USERS in the window between its assignment and the flag *)
C4_Witness == \E t \in Requests : ~IsNone(data[t]) /\ ~_GENERATED /\ pc[t] = "respond"

-----------------------------------------------------------------------------
(* Properties of the list request.  For a request thread t that has returned
   a response: *)

Served(t) == ~IsNone(resp[t]) /\ ~IsNone(data[t])

RawArgs(t) == Val(args[t])

Query(t) == Val(req[t])

Response(t) == Val(resp[t])

View(t) == Val(data[t])

(* the filtered set and the filtered, sorted working sequence of t's request *)
FilteredOf(t) == Filtered(View(t), Query(t))

WorkingOf(t) == Working(View(t), Query(t))

Ids(list) == [k \in 1..Len(list) |-> Val(list[k]).id]

(* sort_order asks for descending order, whatever its case *)
AsksDescending(t) ==
    ~IsNone(RawArgs(t).sort_order) /\ Lower(Val(RawArgs(t).sort_order)) = DESC

(* C5: with page P >= 1 and effective page size L over a working sequence of
   size M, the items are the elements at positions (P-1)*L .. min(P*L, M)-1
   in order, there are min(L, max(0, M-(P-1)*L)) of them, and the pages
   1, 2, ... laid end to end are the working sequence. *)
C5_Pagination ==
    \A t \in Requests :
        (Served(t) /\ Query(t).page >= 1) =>
            LET W == WorkingOf(t)
                M == Len(W)
                P == Query(t).page
                L == Response(t).limit
            IN  /\ Response(t).items = SubSeq(W, (P - 1) * L + 1, Min(P * L, M))
                /\ Len(Response(t).items) = Min(L, Max(0, M - (P - 1) * L))
                /\ Concat([p \in 1..(M + 1) |-> PageItems(W, p, L)]) = W

(* a last page that is not full *)
C5_Witness ==
    \E t \in Requests :
        /\ Served(t)
        /\ Query(t).page >= 2
        /\ Response(t).items # <<>>
        /\ Len(Response(t).items) < Response(t).limit

(* C6: total is the size of the filtered set that was paginated: the number
   of matching records with a search, the number of records of the view the
   items were sliced from without one. *)
C6_TotalIsFilteredSize ==
    \A t \in Requests :
        Served(t) =>
            /\ Response(t).total = Len(FilteredOf(t))
            /\ ~Truthy(Query(t).search) => Response(t).total = Len(View(t))

(* a search that keeps some records and drops others *)
C6_Witness ==
    \E t \in Requests :
        /\ Served(t)
        /\ Truthy(Query(t).search)
        /\ Response(t).total > 0
        /\ Response(t).total < Len(View(t))

(* the text is a substring of the record's name, email or phone, compared
   without regard to case *)
FoundIn(u, text) ==
    \E f \in {"name", "email", "phone"} : Contains(Lower(Val(u)[f]), Lower(text))

KeptBySearch(t, k) == \E j \in 1..Len(FilteredOf(t)) : FilteredOf(t)[j] = View(t)[k]

InIdOrder(list) ==
    \A i, j \in 1..Len(list) : i < j => Val(list[i]).id < Val(list[j]).id

(* C7 as stated: for a non-empty search text S a record is kept iff S itself
   is, case-insensitively, a substring of its name, email or phone. *)
C7_SearchByTextAsGiven ==
    \A t \in Requests :
        (Served(t) /\ Truthy(Query(t).search)) =>
            /\ \A k \in 1..Len(View(t)) :
                   KeptBySearch(t, k) <=> FoundIn(View(t)[k], Val(Query(t).search))
            /\ InIdOrder(FilteredOf(t))

(* C7 amended: for a non-empty search text S a record is kept iff S with its
   leading and trailing whitespace removed is, case-insensitively, a substring
   of its name, email or phone; the kept records stay in id order. *)
C7_SearchByStrippedText ==
    \A t \in Requests :
        (Served(t) /\ Truthy(Query(t).search)) =>
            /\ \A k \in 1..Len(View(t)) :
                   KeptBySearch(t, k) <=> FoundIn(View(t)[k], Strip(Val(Query(t).search)))
            /\ InIdOrder(FilteredOf(t))

(* a text with whitespace around it, in another case than the record's, that
   keeps some records and drops others *)
C7_Witness ==
    \E t \in Requests :
        /\ Served(t)
        /\ Truthy(Query(t).search)
        /\ Strip(Val(Query(t).search)) \notin {<<>>, Val(Query(t).search)}
        /\ FilteredOf(t) # <<>>
        /\ Len(FilteredOf(t)) < Len(View(t))

(* the records of the example: scores 10, 30, 20, 30, 5 for ids 1..5 *)
ExampleUsers ==
    LET d == CHOOSE x \in Draws : x.score = 1000
        scores == <<1000, 3000, 2000, 3000, 500>>
    IN  [k \in 1..5 |-> Some(generate_user(k, [d EXCEPT !.score = scores[k]]))]

(* sort_by=score&sort_order=asc&page=1&limit=3 *)
ExampleArgs ==
    [page |-> Some(<<49>>), limit |-> Some(<<51>>), search |-> None,
     sort_by |-> Some("score"), sort_order |-> Some(ASC)]

ScoresOrdered(list, descending) ==
    \A i \in 1..(Len(list) - 1) :
        IF descending
        THEN Val(list[i]).score >= Val(list[i + 1]).score
        ELSE Val(list[i]).score <= Val(list[i + 1]).score

SamePopulation(a, b) ==
    /\ Len(a) = Len(b)
    /\ \A i \in 1..Len(a) : \E j \in 1..Len(b) : b[j] = a[i]

(* C8: with sort_by=score the working sequence, and so the page, is in
   non-decreasing score order unless sort_order is desc (in any case) and in
   non-increasing order when it is; it holds the filtered records, and records
   of equal score keep their id order in both directions.  The example
   request returns ids 5, 1, 3 and total 5. *)
C8_ScoreOrderStable ==
    /\ \A t \in Requests :
           (Served(t) /\ Query(t).sort_by = Some("score")) =>
               /\ SamePopulation(FilteredOf(t), WorkingOf(t))
               /\ ScoresOrdered(WorkingOf(t), AsksDescending(t))
               /\ ScoresOrdered(Response(t).items, AsksDescending(t))
               /\ \A i, j \in 1..Len(WorkingOf(t)) :
                      (i < j /\ Val(WorkingOf(t)[i]).score = Val(WorkingOf(t)[j]).score)
                          => Val(WorkingOf(t)[i]).id < Val(WorkingOf(t)[j]).id
    /\ Ids(Respond(Some(ExampleUsers), ParseArgs(ExampleArgs), 5).items) = <<5, 1, 3>>
    /\ Respond(Some(ExampleUsers), ParseArgs(ExampleArgs), 5).total = 5

(* a descending page with a tie in it and a record of another score *)
C8_Witness ==
    \E t \in Requests :
        /\ Served(t)
        /\ Query(t).sort_by = Some("score")
        /\ AsksDescending(t)
        /\ \E i \in 1..(Len(Response(t).items) - 1) :
               Val(Response(t).items[i]).score = Val(Response(t).items[i + 1]).score
        /\ \E i \in 1..(Len(Response(t).items) - 1) :
               Val(Response(t).items[i]).score > Val(Response(t).items[i + 1]).score

(* what a sort key orders by: numbers for id and score, the timestamp text of
   the record for the timestamp key, the lower-cased text for the text fields *)
OrderKey(u, key) ==
    IF key \in {"id", "score"} THEN <<Val(u)[key]>>
    ELSE IF key \in {"lastActivityAt", "lastMessageAt"} THEN Val(u).lastMessageAt
    ELSE Lower(Val(u)[key])

OrderedBy(list, key, descending) ==
    \A i \in 1..(Len(list) - 1) :
        IF descending
        THEN ~SeqLess(OrderKey(list[i], key), OrderKey(list[i + 1], key))
        ELSE ~SeqLess(OrderKey(list[i + 1], key), OrderKey(list[i], key))

SortedRequest(t, keys) ==
    /\ Served(t)
    /\ ~IsNone(Query(t).sort_by)
    /\ Val(Query(t).sort_by) \in keys

(* C9 as stated: with sort_by one of id, score, lastActivityAt, name, email,
   phone, addedBy the working set, and the page, is ordered by that field. *)
C9_DocumentedKeysOrder ==
    \A t \in Requests :
        SortedRequest(t, {"id", "score", "lastActivityAt", "name", "email", "phone",
                          "addedBy"}) =>
            /\ OrderedBy(WorkingOf(t), Val(Query(t).sort_by), AsksDescending(t))
            /\ OrderedBy(Response(t).items, Val(Query(t).sort_by), AsksDescending(t))

(* C9 amended: with sort_by one of id, score, lastMessageAt, name, email,
   phone, addedBy the working set, and the page, is ordered by that field;
   lastActivityAt is no field of the records and leaves the filtered set in
   id order. *)
C9_RecordKeysOrder ==
    \A t \in Requests :
        /\ SortedRequest(t, {"id", "score", "lastMessageAt", "name", "email", "phone",
                             "addedBy"}) =>
               /\ SamePopulation(FilteredOf(t), WorkingOf(t))
               /\ OrderedBy(WorkingOf(t), Val(Query(t).sort_by), AsksDescending(t))
               /\ OrderedBy(Response(t).items, Val(Query(t).sort_by), AsksDescending(t))
        /\ SortedRequest(t, {"lastActivityAt"}) =>
               /\ WorkingOf(t) = FilteredOf(t)
               /\ InIdOrder(WorkingOf(t))

(* an ascending sort by a text field that put a later record first, where
   comparing with case would not have *)
C9_Witness ==
    \E t \in Requests :
        /\ SortedRequest(t, {"name", "addedBy"})
        /\ ~AsksDescending(t)
        /\ \E i \in 1..(Len(Response(t).items) - 1) :
               /\ Val(Response(t).items[i]).id > Val(Response(t).items[i + 1]).id
               /\ SeqLess(Val(Response(t).items[i + 1])[Val(Query(t).sort_by)],
                          Val(Response(t).items[i])[Val(Query(t).sort_by)])

(* C10: a request with page <= 0 is answered as page 1: the response carries
   page 1 and the items of the first page. *)
C10_NonPositivePageIsFirstPage ==
    \A t \in Requests :
        (Served(t) /\ Query(t).page <= 0) =>
            /\ Response(t).page = 1
            /\ Response(t).items =
                   SubSeq(WorkingOf(t), 1, Min(Response(t).limit, Len(WorkingOf(t))))

(* C11: whenever start = (page-1)*limit lies outside [0, M) for a working set
   of size M, whatever the sign of page, the items are empty. *)
C11_OutOfRangeStartIsEmpty ==
    \A t \in Requests :
        Served(t) =>
            LET start == (Query(t).page - 1) * Response(t).limit
            IN  (start < 0 \/ start >= Len(WorkingOf(t))) => Response(t).items = <<>>

(* the number a limit parameter spells: None when it is absent or no number *)
GivenLimit(t) ==
    IF IsNone(RawArgs(t).limit) THEN None ELSE PyInt(Val(RawArgs(t).limit))

(* C12: the effective page size is in 1..1000 and is what the response
   carries as limit: a limit that is absent, not a number, <= 0 or > 1000
   gives 30, and a limit in 1..1000 is used as it is. *)
C12_LimitNormalized ==
    \A t \in Requests :
        Served(t) =>
            /\ Response(t).limit \in 1..1000
            /\ Response(t).limit = Query(t).limit
            /\ IF ~IsNone(GivenLimit(t)) /\ Val(GivenLimit(t)) \in 1..1000
               THEN Response(t).limit = Val(GivenLimit(t))
               ELSE Response(t).limit = 30

(* limit=1001 was answered with limit 30 *)
C12_Witness ==
    \E t \in Requests :
        /\ Served(t)
        /\ RawArgs(t).limit = Some(<<49,48,48,49>>)
        /\ Response(t).limit = 30

(* C13 as stated: with a sort_by outside id, score, lastMessageAt, name,
   email, phone and addedBy the request returns the filtered set in id order,
   for asc and for desc. *)
C13_UnrecognizedKeyKeepsIdOrder ==
    \A t \in Requests :
        (Served(t) /\ ~IsNone(Query(t).sort_by)
            /\ Val(Query(t).sort_by) \notin {"id", "score", "lastMessageAt", "name",
                                             "email", "phone", "addedBy"}) =>
            /\ WorkingOf(t) = FilteredOf(t)
            /\ InIdOrder(WorkingOf(t))

(* C13 amended: with a sort_by that names no field of the records the request
   returns the filtered set in id order, for asc and for desc; with
   sort_by=avatar, a field outside the recognized keys, it returns the
   filtered set ordered by the avatar text. *)
C13_UnknownFieldKeepsIdOrder ==
    \A t \in Requests :
        /\ (Served(t) /\ ~IsNone(Query(t).sort_by)
               /\ Val(Query(t).sort_by) \notin RecordFields) =>
               /\ WorkingOf(t) = FilteredOf(t)
               /\ InIdOrder(WorkingOf(t))
               /\ Response(t).items = PySlice(FilteredOf(t),
                      (Query(t).page - 1) * Query(t).limit,
                      (Query(t).page - 1) * Query(t).limit + Query(t).limit)
        /\ SortedRequest(t, {"avatar"}) =>
               /\ SamePopulation(FilteredOf(t), WorkingOf(t))
               /\ \A i \in 1..(Len(WorkingOf(t)) - 1) :
                      IF AsksDescending(t)
                      THEN ~SeqLess(Val(WorkingOf(t)[i]).avatar, Val(WorkingOf(t)[i + 1]).avatar)
                      ELSE ~SeqLess(Val(WorkingOf(t)[i + 1]).avatar, Val(WorkingOf(t)[i]).avatar)

(* sort_by=rank with a descending order returned two or more records *)
C13_Witness ==
    \E t \in Requests :
        /\ SortedRequest(t, {"rank"})
        /\ AsksDescending(t)
        /\ Len(Response(t).items) >= 2

(* C14: a request with search= (the empty text) gets the page, limit, total
   and items of the same request without the search parameter. *)
C14_EmptySearchIsNoSearch ==
    \A t \in Requests :
        (Served(t) /\ RawArgs(t).search = Some(<<>>)) =>
            Response(t) = Respond(data[t], ParseArgs([RawArgs(t) EXCEPT !.search = None]),
                                  TOTAL_USERS)

(* an empty search text on a sorted request that returned records *)
C14_Witness ==
    \E t \in Requests :
        /\ Served(t)
        /\ RawArgs(t).search = Some(<<>>)
        /\ ~IsNone(Query(t).sort_by)
        /\ Response(t).items # <<>>

-----------------------------------------------------------------------------
(* Further properties of the dataset lifecycle *)

(* C15: no step changes the published list: once _USERS is not None it stays
   the same list, with the same records in the same order, slot i (0-based)
   holding id i + 1, whatever list requests are served. *)
C15_RequestsLeaveDatasetAlone ==
    /\ [][~IsNone(_USERS) => _USERS' = _USERS]_vars
    /\ [](~IsNone(_USERS) => Ids(Val(_USERS)) = [k \in 1..TOTAL_USERS |-> k])

(* a sorted request without a search returned the records out of id order *)
C15_Witness ==
    \E t \in Requests :
        /\ Served(t)
        /\ IsNone(Query(t).search)
        /\ ~IsNone(Query(t).sort_by)
        /\ ~InIdOrder(Response(t).items)
        /\ _USERS = data[t]

(* C16: under fair scheduling a generation that has been triggered completes,
   so that health reports "ready", and every list request that has been taken
   up returns a response, also when it arrives while another thread holds
   _USERS_LOCK. *)
C16_GenerationAndRequestsComplete ==
    /\ (\E t \in Threads : pc[t] = "gen_lock")
           ~> (_GENERATED /\ HealthStatus(_GENERATED) = "ready")
    /\ \A t \in Requests :
           (pc[t] \in {"check_users", "gen_lock"}) ~> (pc[t] = "idle" /\ ~IsNone(resp[t]))

(* both requests began before generation completed and were answered, and two
   of the three invocations of generate_users_once waited for the lock and
   returned at the test *)
C16_Witness ==
    /\ \A t \in Requests : early[t] /\ Served(t) /\ pc[t] = "idle"
    /\ skips = 2

(* the places of generate_users_once: waiting for _USERS_LOCK or holding it *)
InGenerateUsersOnce(p) ==
    p \in {"gen_lock", "gen_check", "gen_fill", "gen_publish", "gen_flag", "gen_release"}

(* C17: a list request that finds _USERS published at its test goes on to
   read it without entering generate_users_once, so it neither waits for nor
   holds _USERS_LOCK; a request enters generate_users_once only from a test
   that found _USERS to be None. *)
C17_ReadersSkipTheLock ==
    [][\A t \in Requests :
          /\ (pc[t] = "check_users" /\ ~IsNone(_USERS) /\ pc'[t] # pc[t])
                 => (pc'[t] = "read_data" /\ _USERS_LOCK' = _USERS_LOCK)
          /\ (~InGenerateUsersOnce(pc[t]) /\ InGenerateUsersOnce(pc'[t]))
                 => (pc[t] = "check_users" /\ IsNone(_USERS))]_vars

(* a request went past its test to the read while another thread still held
   the lock, before the flag was set *)
C17_Witness ==
    \E t \in Requests :
        /\ pc[t] = "read_data"
        /\ ~IsNone(_USERS)
        /\ ~_GENERATED
        /\ ~IsNone(_USERS_LOCK)
        /\ Val(_USERS_LOCK) # t

(* C18: when record construction fails inside generate_users_once the lock is
   released, _GENERATED stays False and _USERS stays None, the background
   thread ends or the request is answered with an error, and the lock is never
   left with a holder that is outside the with-block, so that a later call can
   start a fresh run. *)
C18_FailureRollsBack ==
    /\ [][\A t \in Threads :
             (pc[t] = "gen_fill" /\ pc'[t] \notin {"gen_fill", "gen_publish"}) =>
                 /\ IsNone(_USERS_LOCK')
                 /\ ~_GENERATED'
                 /\ IsNone(_USERS')
                 /\ t = "bg" => pc'[t] = "dead"
                 /\ t \in Requests => (pc'[t] = "idle" /\ resp'[t] = Some(ServerError))]_vars
    /\ [](~IsNone(_USERS_LOCK) =>
             pc[Val(_USERS_LOCK)] \in {"gen_check", "gen_fill", "gen_publish", "gen_flag",
                                       "gen_release"})
    /\ []((passes > 0 /\ publishes = 0 /\ Generating = {}) => (~_GENERATED /\ IsNone(_USERS)))

(* after two failed runs, one of them the background thread's, a later call
   ran a fresh generation to the end *)
C18_Witness ==
    /\ pc["bg"] = "dead"
    /\ passes = 3
    /\ publishes = 1
    /\ _GENERATED
    /\ \E t \in Requests : resp[t] = Some(ServerError)

(* C19: _GENERATED being True implies that _USERS is not None, so once health
   has reported "ready" the dataset is there, and a list request that begins
   while health would report "ready" never enters generate_users_once and is
   answered from the whole dataset. *)
C19_ReadyImpliesPublished ==
    /\ _GENERATED => ~IsNone(_USERS)
    /\ lastHealth = Some("ready") => (_GENERATED /\ FilledSlots(_USERS) = TOTAL_USERS)
    /\ \A t \in Requests :
           (~early[t] /\ pc[t] # "idle") =>
               /\ HealthStatus(_GENERATED) = "ready"
               /\ ~InGenerateUsersOnce(pc[t])
               /\ pc[t] \in {"read_data", "respond"} => ~IsNone(_USERS)
               /\ pc[t] = "respond" => data[t] = _USERS
    /\ \A t \in Requests :
           (~early[t] /\ Served(t)) =>
               /\ FilledSlots(data[t]) = TOTAL_USERS
               /\ data[t] = _USERS
               /\ Response(t) = Respond(_USERS, Query(t), TOTAL_USERS)

(* health has reported "ready" and a request that began after the flag was
   set has been answered *)
C19_Witness ==
    /\ lastHealth = Some("ready")
    /\ \E t \in Requests : ~early[t] /\ Served(t) /\ pc[t] = "idle"

====
